---- MODULE Spec2Model ----
(***************************************************************************)
(* Model of bzt/modules/molotov.py: MolotovExecutor, the Taurus executor   *)
(* that runs the molotov load-testing tool as a child process, and the     *)
(* Molotov RequiredTool it probes in prepare().                            *)
(*                                                                         *)
(* Python values are tagged records [t |-> type, v |-> value], so that     *)
(* None, strings, numbers, file objects and process handles can be held by *)
(* the same attribute and compared.  Durations are kept in milliseconds so *)
(* that ceil() to whole seconds is a real computation.  Strings that the   *)
(* code only passes around are TLA+ strings; file contents are sequences   *)
(* of characters so that strip() can be computed.                          *)
(***************************************************************************)
EXTENDS Integers, Sequences, FiniteSets, TLC

VARIABLES
    tool_path,         \* self.tool_path
    report_file_name,  \* self.report_file_name
    stdout_file,       \* self.stdout_file
    stderr_file,       \* self.stderr_file
    process,           \* self.process
    start_time,        \* self.start_time
    script,            \* scenario["script"] of the executor's scenario
    load,              \* the LoadSpec returned by self.get_load()
    procs,             \* the child processes of the executor, by pid: those that
                       \* run and the one that self.process refers to
    fs,                \* the capture files that the file objects of the executor
                       \* name: name -> contents
    nartifacts,        \* how many times prepare() has created its artifacts
    ret                \* the outcome of the last call made on the executor

vars == <<tool_path, report_file_name, stdout_file, stderr_file, process,
          start_time, script, load, procs, fs, nartifacts, ret>>

\* the attributes of the executor object itself
fields == <<tool_path, report_file_name, stdout_file, stderr_file, process, start_time>>

----------------------------------------------------------------------------
\* Bounds of the model

MaxPrepare == 1      \* successful prepare() calls
MaxStartup == 2      \* child processes of the executor at one time
MaxOut == 2          \* characters in the capture files, in all

----------------------------------------------------------------------------
\* Python values

None == [t |-> "NoneType", v |-> "None"]
Str(s) == [t |-> "str", v |-> s]
PyInt(n) == [t |-> "int", v |-> n]
PyBool(b) == [t |-> "bool", v |-> b]
PyList(s) == [t |-> "list", v |-> s]
\* a number of seconds, held in milliseconds
Secs(ms) == [t |-> "float", v |-> ms]
\* a humanized time string such as "1m5s": its <<number, unit>> parts
TimeStr(parts) == [t |-> "timestr", v |-> parts]
\* an open()ed file object
FileObj(name, closed) == [t |-> "file", v |-> [name |-> name, closed |-> closed]]
\* a subprocess.Popen object
Popen(pid) == [t |-> "Popen", v |-> pid]
\* what time.time() returns: the clock is not followed, one reading stands
\* for all of them
time == [t |-> "float", v |-> "time.time()"]
\* a raised exception
Exc(type, msg, diagnostics) ==
    [t |-> type, v |-> [msg |-> msg, diagnostics |-> diagnostics]]

Returned(op, val) == [op |-> op, raised |-> FALSE, val |-> val]
Raised(op, exc) == [op |-> op, raised |-> TRUE, val |-> exc]

Digit == <<"0", "1", "2", "3", "4", "5", "6", "7", "8", "9">>

RECURSIVE StrNat(_)
StrNat(n) == IF n < 10 THEN Digit[n + 1] ELSE StrNat(n \div 10) \o Digit[(n % 10) + 1]

\* str(n) / "%s" % n for an integer
StrInt(n) == IF n < 0 THEN "-" \o StrNat(0 - n) ELSE StrNat(n)

\* truth value of a Python object in an `if`
Truthy(x) ==
    CASE x.t = "NoneType" -> FALSE
      [] x.t \in {"int", "float"} -> x.v # 0
      [] x.t = "timestr" -> x.v # <<>>
      [] x.t = "bool" -> x.v
      [] OTHER -> TRUE

----------------------------------------------------------------------------
\* Inputs

Whitespace == {" "}
Chars == {" ", "x"}
ExitCodes == {0, 1}
\* SIGTERM and SIGKILL
Signals == {15, 9}
ProbeOutcomes == {"ok", "CalledProcessError", "OSError"}

Loads ==
    [concurrency : {None, PyInt(0), PyInt(10)},
     ramp_up : {None, Secs(0), Secs(5000)},
     hold : {Secs(0), Secs(1500), TimeStr(<<<<30, "s">>>>), TimeStr(<<<<1, "m">>, <<5, "s">>>>)}]

\* the loads the executor is run with when its whole lifecycle is explored
LifecycleLoads ==
    {[concurrency |-> PyInt(10), ramp_up |-> Secs(0), hold |-> TimeStr(<<<<30, "s">>>>)],
     [concurrency |-> None, ramp_up |-> Secs(5000), hold |-> Secs(1500)]}

Scripts == {None, Str("loadtest.py")}

----------------------------------------------------------------------------
\* Collaborators from bzt.utils and bzt.engine

UnitMs(u) ==
    CASE u = "ms" -> 1
      [] u = "s" -> 1000
      [] u = "m" -> 60000
      [] u = "h" -> 3600000

RECURSIVE SumParts(_)
SumParts(parts) ==
    IF parts = <<>> THEN 0
    ELSE Head(parts)[1] * UnitMs(Head(parts)[2]) + SumParts(Tail(parts))

\* dehumanize_time: seconds (here in ms) of a number or of a humanized string
dehumanize_time(x) ==
    IF ~Truthy(x) THEN 0
    ELSE IF x.t = "float" THEN x.v
    ELSE SumParts(x.v)

\* engine.create_artifact(prefix, suffix): a name not handed out before
create_artifact(prefix, suffix, n) == <<prefix, n, suffix>>

\* engine.find_file(script): the script resolved against the search paths
find_file(s) == Str("./" \o s.v)

----------------------------------------------------------------------------
\* Molotov (RequiredTool)

\* Molotov.check_if_installed, given what shell_exec([tool_path, '-h']) does
check_if_installed(probe) ==
    IF probe \in {"CalledProcessError", "OSError"} THEN FALSE ELSE TRUE

\* Molotov.install
install == Exc("ToolError", "You must install molotov tool to use it", None)

\* the value of settings.get('path', 'molotov')
settings_path == Str("molotov")

----------------------------------------------------------------------------
\* Pure parts of MolotovExecutor

\* _get_script: the found script, or the TaurusConfigError that
\* scenario.get raises when the scenario has no "script"
get_script_fails == script = None
get_script_error == Exc("TaurusConfigError", "You must provide script for Molotov", None)
get_script == find_file(script)

\* int(ceil(seconds)) of a non-negative duration held in milliseconds
ceil(ms) == (ms + 999) \div 1000

\* the ramp_up local computed from load.ramp_up instead of load.hold
startup_ramp_up_own_field(ld) ==
    IF Truthy(ld.ramp_up) THEN PyInt(ceil(dehumanize_time(ld.ramp_up))) ELSE None

\* the ramp_up local of startup(); None when the branch is not taken
startup_ramp_up(ld) ==
    IF Truthy(ld.ramp_up) THEN PyInt(ceil(dehumanize_time(ld.hold))) ELSE None

\* the hold local of startup(); None when the branch is not taken
startup_hold(ld) ==
    IF Truthy(ld.hold) THEN PyInt(ceil(dehumanize_time(ld.hold))) ELSE None

\* the duration local of startup() when --duration is appended
startup_duration(ld) ==
    LET d0 == 0
        d1 == IF startup_ramp_up(ld) # None THEN d0 + startup_ramp_up(ld).v ELSE d0
        d2 == IF startup_hold(ld) # None THEN d1 + startup_hold(ld).v ELSE d1
    IN  d2

\* the cmdline list with --duration left out when the duration is 0
startup_cmdline_no_zero(tp, ld) ==
    LET c0 == <<tp>>
        c1 == IF ld.concurrency # None
              THEN c0 \o <<Str("--workers"), Str(StrInt(ld.concurrency.v))>>
              ELSE c0
        c2 == IF startup_ramp_up(ld) # None
              THEN c1 \o <<Str("--ramp-up"), Str(StrInt(startup_ramp_up(ld).v))>>
              ELSE c1
        c3 == IF startup_duration(ld) # 0
              THEN c2 \o <<Str("--duration"), Str(StrInt(startup_duration(ld)))>>
              ELSE c2
        c4 == c3 \o <<Str("--use-extension=bzt.resources.molotov_ext")>>
    IN  c4

\* the cmdline list of startup() up to and including the extension flag
startup_cmdline(tp, ld) ==
    LET c0 == <<tp>>
        c1 == IF ld.concurrency # None
              THEN c0 \o <<Str("--workers"), Str(StrInt(ld.concurrency.v))>>
              ELSE c0
        c2 == IF startup_ramp_up(ld) # None
              THEN c1 \o <<Str("--ramp-up"), Str(StrInt(startup_ramp_up(ld).v))>>
              ELSE c1
        c3 == c2 \o <<Str("--duration"), Str(StrInt(startup_duration(ld)))>>
        c4 == c3 \o <<Str("--use-extension=bzt.resources.molotov_ext")>>
    IN  c4

RECURSIVE lstrip(_)
lstrip(s) == IF s # <<>> /\ Head(s) \in Whitespace THEN lstrip(Tail(s)) ELSE s

RECURSIVE rstrip(_)
rstrip(s) ==
    IF s # <<>> /\ s[Len(s)] \in Whitespace THEN rstrip(SubSeq(s, 1, Len(s) - 1)) ELSE s

\* str.strip()
strip(s) == rstrip(lstrip(s))

\* a block of get_error_diagnostics that reports the contents untrimmed
diagnostics_of_raw(label, file, files) ==
    IF file # None
    THEN LET contents == files[file.v.name]
         IN  IF strip(contents) # <<>> THEN << <<label>> \o contents >> ELSE <<>>
    ELSE <<>>

\* one `if self.<file> is not None:` block of get_error_diagnostics
diagnostics_of(label, file, files) ==
    IF file # None
    THEN LET contents == strip(files[file.v.name])
         IN  IF strip(contents) # <<>> THEN << <<label>> \o contents >> ELSE <<>>
    ELSE <<>>

\* get_error_diagnostics: the list it returns
get_error_diagnostics(out, err, files) ==
    PyList(diagnostics_of("molotov STDOUT:\n", out, files)
           \o diagnostics_of("molotov STDERR:\n", err, files))

----------------------------------------------------------------------------
\* The executor state after MolotovExecutor.__init__, for any configuration

InitWith(loads) ==
    /\ process = None
    /\ report_file_name = None
    /\ stdout_file = None
    /\ stderr_file = None
    /\ tool_path = None
    /\ start_time = None
    /\ script \in Scripts
    /\ load \in loads
    /\ procs = <<>>
    /\ fs = <<>>
    /\ nartifacts = 0
    /\ ret = Returned("__init__", None)

Init == InitWith(LifecycleLoads)

\* the same executor, for every load
InitCmd == InitWith(Loads)

config == <<script, load>>
world == <<procs, fs, nartifacts>>

----------------------------------------------------------------------------
\* Operations of MolotovExecutor

\* install_required_tools: the tool path it returns, or the exception of
\* tool.install() when the tool is not installed
install_required_tools(probe) ==
    IF ~check_if_installed(probe) THEN install ELSE settings_path

\* prepare() that opens the capture files before it looks for the tool
prepare_files_first(probe) ==
    LET tool == install_required_tools(probe)
        out == create_artifact("molotov", ".out", nartifacts + 1)
        err == create_artifact("molotov", ".err", nartifacts + 1)
        report == create_artifact("molotov-report", ".csv", nartifacts + 1)
    IN  /\ nartifacts < MaxPrepare
        /\ stdout_file' = FileObj(out, FALSE)
        /\ stderr_file' = FileObj(err, FALSE)
        /\ fs' = (out :> <<>>) @@ (err :> <<>>)
        /\ nartifacts' = nartifacts + 1
        /\ IF tool.t = "ToolError"
           THEN /\ ret' = Raised("prepare", tool)
                /\ UNCHANGED <<tool_path, report_file_name>>
           ELSE /\ tool_path' = tool
                /\ report_file_name' = Str(report)
                /\ ret' = Returned("prepare", None)
        /\ UNCHANGED <<process, start_time, config, procs>>

\* prepare(), given what the probe of the tool does
prepare(probe) ==
    LET tool == install_required_tools(probe)
        out == create_artifact("molotov", ".out", nartifacts + 1)
        err == create_artifact("molotov", ".err", nartifacts + 1)
        report == create_artifact("molotov-report", ".csv", nartifacts + 1)
    IN  IF tool.t = "ToolError"
        THEN /\ ret' = Raised("prepare", tool)
             /\ UNCHANGED <<fields, config, world>>
        ELSE /\ nartifacts < MaxPrepare
             /\ tool_path' = tool
             /\ stdout_file' = FileObj(out, FALSE)
             /\ stderr_file' = FileObj(err, FALSE)
             /\ fs' = (out :> <<>>) @@ (err :> <<>>)
             /\ report_file_name' = Str(report)
             /\ nartifacts' = nartifacts + 1
             /\ ret' = Returned("prepare", None)
             /\ UNCHANGED <<process, start_time, config, procs>>

Prepare == \E probe \in ProbeOutcomes : prepare(probe)

\* self.execute(cmdline, stdout=, stderr=, env=): the exception Popen raises
\* for these arguments, or None when the child can be spawned
execute_error(cmdline, out, err) ==
    IF \E i \in 1..Len(cmdline) : cmdline[i] = None
    THEN Exc("TypeError", "expected str, bytes or os.PathLike object, not NoneType", None)
    ELSE IF (out # None /\ out.v.closed) \/ (err # None /\ err.v.closed)
    THEN Exc("ValueError", "I/O operation on closed file", None)
    ELSE None

\* the child process self.execute spawns
child(cmdline, out, err, env) ==
    [returncode |-> None, cmdline |-> cmdline, stdout |-> out, stderr |-> err, env |-> env]

\* the pid that the next child gets
next_pid(ps) == CHOOSE p \in (1..MaxStartup) \ DOMAIN ps : \A q \in (1..MaxStartup) \ DOMAIN ps : p <= q

\* the children that still matter: a child that has exited and that no
\* Popen object of the executor refers to can no longer be observed
reap(ps, handle) ==
    LET keep == {p \in DOMAIN ps : ps[p].returncode = None \/ handle = Popen(p)}
    IN  [p \in keep |-> ps[p]]

\* startup() that records the start time before it builds the command line
startup_time_first ==
    IF get_script_fails
    THEN /\ start_time' = time
         /\ ret' = Raised("startup", get_script_error)
         /\ UNCHANGED <<tool_path, report_file_name, stdout_file, stderr_file, process,
                        config, procs, fs, nartifacts>>
    ELSE LET cmdline == startup_cmdline(tool_path, load) \o <<get_script>>
             env == [MOLOTOV_TAURUS_REPORT |-> report_file_name]
             error == execute_error(cmdline, stdout_file, stderr_file)
         IN  /\ start_time' = time
             /\ IF error # None
                THEN /\ ret' = Raised("startup", error)
                     /\ UNCHANGED <<process, procs>>
                ELSE /\ Cardinality(DOMAIN procs) < MaxStartup
                     /\ process' = Popen(next_pid(procs))
                     /\ procs' = reap((next_pid(procs) :>
                                        child(cmdline, stdout_file, stderr_file, env)) @@ procs,
                                     process')
                     /\ ret' = Returned("startup", None)
             /\ UNCHANGED <<tool_path, report_file_name, stdout_file, stderr_file,
                            config, fs, nartifacts>>

\* startup()
Startup ==
    IF get_script_fails
    THEN /\ ret' = Raised("startup", get_script_error)
         /\ UNCHANGED <<fields, config, world>>
    ELSE LET cmdline == startup_cmdline(tool_path, load) \o <<get_script>>
             env == [MOLOTOV_TAURUS_REPORT |-> report_file_name]
             error == execute_error(cmdline, stdout_file, stderr_file)
         IN  /\ start_time' = time
             /\ IF error # None
                THEN /\ ret' = Raised("startup", error)
                     /\ UNCHANGED <<process, procs>>
                ELSE /\ Cardinality(DOMAIN procs) < MaxStartup
                     /\ process' = Popen(next_pid(procs))
                     /\ procs' = reap((next_pid(procs) :>
                                        child(cmdline, stdout_file, stderr_file, env)) @@ procs,
                                     process')
                     /\ ret' = Returned("startup", None)
             /\ UNCHANGED <<tool_path, report_file_name, stdout_file, stderr_file,
                            config, fs, nartifacts>>

\* Popen.poll(): the exit status of the child, None while it runs
poll(p) == procs[p.v].returncode

\* check() with `if not ret_code: return False`: exit code 0 reads as running
check_outcome_falsy(ret_code, diagnostics) ==
    IF ret_code = None \/ ret_code.v = 0
    THEN Returned("check", PyBool(FALSE))
    ELSE Raised("check",
                Exc("ToolError",
                    "molotov exited with non-zero code: " \o StrInt(ret_code.v),
                    diagnostics))

\* check() without the `is None` test: a running child reads as finished
check_outcome_no_none(ret_code, diagnostics) ==
    IF ret_code # None /\ ret_code.v # 0
    THEN Raised("check",
                Exc("ToolError",
                    "molotov exited with non-zero code: " \o StrInt(ret_code.v),
                    diagnostics))
    ELSE Returned("check", PyBool(TRUE))

\* check() with `if ret_code > 0`: death by a signal reads as success
check_outcome_positive(ret_code, diagnostics) ==
    IF ret_code = None
    THEN Returned("check", PyBool(FALSE))
    ELSE IF ret_code.v > 0
    THEN Raised("check",
                Exc("ToolError",
                    "molotov exited with non-zero code: " \o StrInt(ret_code.v),
                    diagnostics))
    ELSE Returned("check", PyBool(TRUE))

\* what check() returns or raises for the exit status that poll() gave
check_outcome(ret_code, diagnostics) ==
    IF ret_code = None
    THEN Returned("check", PyBool(FALSE))
    ELSE IF ret_code.v # 0
    THEN Raised("check",
                Exc("ToolError",
                    "molotov exited with non-zero code: " \o StrInt(ret_code.v),
                    diagnostics))
    ELSE Returned("check", PyBool(TRUE))

\* check()
Check ==
    /\ IF process = None
       THEN ret' = Raised("check", Exc("AttributeError",
                        "'NoneType' object has no attribute 'poll'", None))
       ELSE ret' = check_outcome(poll(process),
                                 get_error_diagnostics(stdout_file, stderr_file, fs))
    /\ UNCHANGED <<fields, config, world>>

\* shutdown_process(process_obj, log): while the process is alive it is sent
\* SIGTERM and, once the grace period is over, SIGKILL, until it has exited
shutdown_process(process_obj, sig) ==
    IF process_obj # None /\ poll(process_obj) = None
    THEN [procs EXCEPT ![process_obj.v].returncode = PyInt(0 - sig)]
    ELSE procs

\* shutdown()
Shutdown ==
    \E sig \in Signals :
        /\ procs' = shutdown_process(process, sig)
        /\ ret' = Returned("shutdown", None)
        /\ UNCHANGED <<fields, config, fs, nartifacts>>

\* post_process(): the file object after `if f and not f.closed: f.close()`
close(f) == IF f # None /\ ~f.v.closed THEN FileObj(f.v.name, TRUE) ELSE f

PostProcess ==
    /\ stdout_file' = close(stdout_file)
    /\ stderr_file' = close(stderr_file)
    /\ ret' = Returned("post_process", None)
    /\ UNCHANGED <<tool_path, report_file_name, process, start_time, config, world>>

\* a call of get_error_diagnostics()
GetErrorDiagnostics ==
    /\ ret' = Returned("get_error_diagnostics",
                       get_error_diagnostics(stdout_file, stderr_file, fs))
    /\ UNCHANGED <<fields, config, world>>

----------------------------------------------------------------------------
\* The child processes, running in parallel with the executor

Running(p) == procs[p].returncode = None

RECURSIVE SumLen(_, _)
SumLen(files, names) ==
    IF names = {} THEN 0
    ELSE LET n == CHOOSE n \in names : TRUE
         IN  Len(files[n]) + SumLen(files, names \ {n})

\* the number of characters in the capture files
Written == SumLen(fs, DOMAIN fs)

\* a running child writes a character to its stdout or stderr; what goes to
\* a file that prepare() has replaced since is never read again
ChildWrite ==
    \E p \in DOMAIN procs, stream \in {"stdout", "stderr"}, ch \in Chars :
        LET f == IF stream = "stdout" THEN procs[p].stdout ELSE procs[p].stderr
        IN  /\ Running(p)
            /\ f # None
            /\ f.v.name \in DOMAIN fs
            /\ Written < MaxOut
            /\ fs' = [fs EXCEPT ![f.v.name] = Append(@, ch)]
            /\ UNCHANGED <<fields, config, procs, nartifacts, ret>>

\* a running child exits by itself
ChildExit ==
    \E p \in DOMAIN procs, code \in ExitCodes :
        /\ Running(p)
        /\ procs' = reap([procs EXCEPT ![p].returncode = PyInt(code)], process)
        /\ UNCHANGED <<fields, config, fs, nartifacts, ret>>

Next ==
    \/ Prepare
    \/ Startup
    \/ Check
    \/ Shutdown
    \/ PostProcess
    \/ GetErrorDiagnostics
    \/ ChildWrite
    \/ ChildExit

Spec == Init /\ [][Next]_vars

\* building and launching the command line, for every load
NextCmd ==
    \/ Prepare
    \/ Startup

SpecCmd == InitCmd /\ [][NextCmd]_vars

----------------------------------------------------------------------------
\* Vocabulary of the properties

\* t is raw without its leading and trailing whitespace
IsTrimOf(t, raw) ==
    \E i, j \in 0..Len(raw) :
        /\ i + j <= Len(raw)
        /\ t = SubSeq(raw, i + 1, Len(raw) - j)
        /\ \A k \in 1..i : raw[k] \in Whitespace
        /\ \A k \in (Len(raw) - j + 1)..Len(raw) : raw[k] \in Whitespace
        /\ t # <<>> => (t[1] \notin Whitespace /\ t[Len(t)] \notin Whitespace)

\* the capture file behind a file attribute has something other than whitespace
NonBlank(file) ==
    /\ file # None
    /\ \E k \in 1..Len(fs[file.v.name]) : fs[file.v.name][k] \notin Whitespace

\* block is the labeled text block for the capture file behind a file attribute
IsBlockOf(block, label, file) ==
    /\ Len(block) > 1
    /\ block[1] = label
    /\ IsTrimOf(Tail(block), fs[file.v.name])

Spawned == process # None
Exited == Spawned /\ poll(process) # None

\* C1: whenever the child that startup() spawned has exited with a non-zero
\* code, check() raises a ToolError whose message carries that code and whose
\* diagnostics are the result of get_error_diagnostics(), with the trimmed
\* stderr content among them when the stderr capture file is not blank.
C1_CheckRaisesOnNonZeroExit ==
    [][(Check /\ Exited /\ poll(process).v # 0) =>
          /\ ret'.raised
          /\ ret'.val.t = "ToolError"
          /\ ret'.val.v.msg = "molotov exited with non-zero code: " \o StrInt(poll(process).v)
          /\ ret'.val.v.diagnostics = get_error_diagnostics(stdout_file, stderr_file, fs)
          /\ NonBlank(stderr_file) =>
                \E i \in 1..Len(ret'.val.v.diagnostics.v) :
                    IsBlockOf(ret'.val.v.diagnostics.v[i], "molotov STDERR:\n", stderr_file)
      ]_vars

\* check() has raised the ToolError of a child killed or failed, with its
\* stderr output in the diagnostics
C1_Witness ==
    /\ ret.op = "check"
    /\ ret.raised
    /\ ret.val.t = "ToolError"
    /\ Exited
    /\ NonBlank(stderr_file)
    /\ \E i \in 1..Len(ret.val.v.diagnostics.v) :
            IsBlockOf(ret.val.v.diagnostics.v[i], "molotov STDERR:\n", stderr_file)

\* C2: once the child has exited with code 0, check() returns True and changes
\* no attribute of the executor, and the exit status stays 0 for as long as
\* the handle is the same, so that every later check() does the same.
C2_CheckAfterSuccessIsNoOp ==
    [][(Exited /\ poll(process) = PyInt(0)) =>
          /\ Check => (ret' = Returned("check", PyBool(TRUE)) /\ UNCHANGED fields)
          /\ process' = process => poll(process)' = PyInt(0)
      ]_vars

\* check() has returned True for a child that exited with code 0
C2_Witness ==
    /\ ret = Returned("check", PyBool(TRUE))
    /\ Exited
    /\ poll(process) = PyInt(0)

\* C3: while the child has not exited, check() returns False, raises nothing,
\* does not wait for the child (it is still running afterwards) and changes
\* no attribute of the executor.
C3_CheckWhileRunning ==
    [][(Check /\ Spawned /\ poll(process) = None) =>
          /\ ret' = Returned("check", PyBool(FALSE))
          /\ UNCHANGED fields
          /\ poll(process)' = None
      ]_vars

\* check() has returned False for a child that is still running
C3_Witness ==
    /\ ret = Returned("check", PyBool(FALSE))
    /\ Spawned
    /\ poll(process) = None

\* C4: with no script in the scenario, startup() raises the TaurusConfigError
\* before anything else happens: afterwards the process handle is unset, no
\* start time is recorded and no child process has been executed.
C4_NoScriptNoSpawn ==
    [][(Startup /\ script = None) =>
          /\ ret' = Raised("startup",
                           Exc("TaurusConfigError", "You must provide script for Molotov", None))
          /\ process' = None
          /\ start_time' = None
          /\ DOMAIN procs' = {}
      ]_vars

\* startup() has failed for want of a script, on a prepared executor
C4_Witness ==
    /\ script = None
    /\ ret.op = "startup"
    /\ ret.raised
    /\ ret.val.t = "TaurusConfigError"
    /\ tool_path # None
    /\ process = None
    /\ start_time = None

\* C5: after startup(), once shutdown() returns no child that the executor
\* spawned is running, and a shutdown() of a child that has already exited
\* changes nothing.
C5_ShutdownLeavesNoLiveChild ==
    [][(Shutdown /\ Spawned) =>
          /\ \A p \in DOMAIN procs' : procs'[p].returncode # None
          /\ Exited => UNCHANGED <<fields, procs, fs>>
      ]_vars

\* C6: at any time at most one child spawned by the executor is running, and
\* a running child is the one that the process handle refers to.
C6_AtMostOneChild ==
    /\ Cardinality({p \in DOMAIN procs : Running(p)}) <= 1
    /\ \A p \in DOMAIN procs : Running(p) => process = Popen(p)

\* C7: when the probe of the tool fails to launch or reports failure,
\* check_if_installed() is false, prepare() raises the ToolError of install(),
\* and it has opened no capture file, computed no report path and set no
\* tool path.
C7_PrepareFailsWithoutTool ==
    [][\A probe \in {"CalledProcessError", "OSError"} :
          /\ ~check_if_installed(probe)
          /\ prepare(probe) =>
                /\ ret' = Raised("prepare",
                                 Exc("ToolError", "You must install molotov tool to use it", None))
                /\ UNCHANGED <<tool_path, report_file_name, stdout_file, stderr_file,
                               fs, nartifacts>>
      ]_vars

\* prepare() has failed on a fresh executor, which is still uninitialized
C7_Witness ==
    /\ ret.op = "prepare"
    /\ ret.raised
    /\ ret.val.t = "ToolError"
    /\ tool_path = None
    /\ stdout_file = None
    /\ stderr_file = None
    /\ report_file_name = None
    /\ fs = <<>>

\* the places of a flag in a command line
Positions(cmdline, flag) == {i \in 1..Len(cmdline) : cmdline[i] = Str(flag)}

\* the whole seconds of the hold of a load
HoldSeconds(ld) == ceil(dehumanize_time(ld.hold))

\* the numbers of seconds that any of the loads can give
SomeSeconds == {0} \cup {HoldSeconds(ld) : ld \in Loads}

\* the argument after the flag at place i is the number n
ArgIs(cmdline, i, n) == i < Len(cmdline) /\ cmdline[i + 1] = Str(StrInt(n))

\* C8: the argv of every child has --duration <total> exactly once, after any
\* --workers and --ramp-up flag and right before the extension flag and the
\* script, with total = the --ramp-up seconds in the argv (0 without the flag)
\* + the whole seconds of the hold when the hold is set; --workers <c> is
\* there exactly when the concurrency is given.
C8_DurationAlwaysEmitted ==
    \A p \in DOMAIN procs :
        LET c == procs[p].cmdline
            n == Len(c)
            dpos == Positions(c, "--duration")
            rpos == Positions(c, "--ramp-up")
            wpos == Positions(c, "--workers")
            hold == IF Truthy(load.hold) THEN HoldSeconds(load) ELSE 0
        IN  /\ Cardinality(dpos) = 1
            /\ \A i \in dpos :
                  /\ i = n - 3
                  /\ \A j \in wpos \cup rpos : j < i
                  /\ \E r \in SomeSeconds :
                        /\ rpos = {} => r = 0
                        /\ \A j \in rpos : ArgIs(c, j, r)
                        /\ ArgIs(c, i, r + hold)
            /\ c[n - 1] = Str("--use-extension=bzt.resources.molotov_ext")
            /\ c[n] = get_script
            /\ wpos # {} <=> load.concurrency # None
            /\ \A j \in wpos : ArgIs(c, j, load.concurrency.v)
            /\ (load.concurrency = PyInt(10) /\ load.ramp_up = Secs(0)
                    /\ load.hold = TimeStr(<<<<30, "s">>>>)) =>
                  c = <<settings_path, Str("--workers"), Str("10"), Str("--duration"), Str("30"),
                        Str("--use-extension=bzt.resources.molotov_ext"), get_script>>
            /\ (load.ramp_up = Secs(0) /\ load.hold = TimeStr(<<<<1, "m">>, <<5, "s">>>>)) =>
                  \A i \in dpos : c[i + 1] = Str("65")

\* a child was started with a load of no duration, and has --duration 0
C8_Witness ==
    /\ 1 \in DOMAIN procs
    /\ load.concurrency = None
    /\ load.hold = Secs(0)
    /\ procs[1].cmdline = <<settings_path, Str("--duration"), Str("0"),
                            Str("--use-extension=bzt.resources.molotov_ext"), get_script>>

\* C9: the argv of every child has --ramp-up exactly when the ramp-up of the
\* load is non-zero; its value is then the whole seconds of the hold, not of
\* the ramp-up, and --duration is twice that.
C9_RampUpFromHold ==
    \A p \in DOMAIN procs :
        LET c == procs[p].cmdline
            rpos == Positions(c, "--ramp-up")
            dpos == Positions(c, "--duration")
        IN  /\ rpos # {} <=> (load.ramp_up # None /\ load.ramp_up.v # 0)
            /\ Cardinality(rpos) <= 1
            /\ \A i \in rpos :
                  /\ ArgIs(c, i, HoldSeconds(load))
                  /\ \A j \in dpos : ArgIs(c, j, 2 * HoldSeconds(load))
            /\ (load.ramp_up = Secs(5000) /\ load.hold = TimeStr(<<<<30, "s">>>>)) =>
                  \E i \in rpos : c[i + 1] = Str("30") /\ c[i + 2] = Str("--duration")
                                                       /\ c[i + 3] = Str("60")

\* a child was started with a ramp-up of 5s and a hold of 1.5s: --ramp-up 2
C9_Witness ==
    /\ 1 \in DOMAIN procs
    /\ load.ramp_up = Secs(5000)
    /\ load.hold = Secs(1500)
    /\ \E i \in Positions(procs[1].cmdline, "--ramp-up") : procs[1].cmdline[i + 1] = Str("2")

\* C10: get_error_diagnostics() returns the labeled trimmed contents of the
\* stdout and then of the stderr capture file, each only if it is not blank
\* (none for a file attribute that is None), changes no attribute of the
\* executor and no file, and would return the same if called again.
C10_DiagnosticsReadOnly ==
    [][GetErrorDiagnostics =>
          LET r == ret'.val.v
              nout == IF NonBlank(stdout_file) THEN 1 ELSE 0
              nerr == IF NonBlank(stderr_file) THEN 1 ELSE 0
          IN  /\ ~ret'.raised
              /\ ret'.val.t = "list"
              /\ Len(r) = nout + nerr
              /\ NonBlank(stdout_file) => IsBlockOf(r[1], "molotov STDOUT:\n", stdout_file)
              /\ NonBlank(stderr_file) => IsBlockOf(r[Len(r)], "molotov STDERR:\n", stderr_file)
              /\ UNCHANGED <<fields, fs, procs>>
              /\ get_error_diagnostics(stdout_file', stderr_file', fs') = ret'.val
      ]_vars

\* get_error_diagnostics() has returned only the stderr block, trimmed, while
\* stdout holds nothing but whitespace
C10_Witness ==
    /\ ret.op = "get_error_diagnostics"
    /\ stderr_file # None
    /\ fs[stderr_file.v.name] = <<" ", "x">>
    /\ fs[stdout_file.v.name] = <<>>
    /\ ret.val.v = << <<"molotov STDERR:\n", "x">> >>

====
